---- MODULE Spec2Model ----
(***************************************************************************)
(* Model of the Ivy sync pipeline (src/main.py): the orchestrator main()   *)
(* and the stages it drives (extract_text_from_pdf,                        *)
(* compress_text_with_fireworks, summarize_text, the Notion helpers).      *)
(*                                                                         *)
(* A text is a sequence of one-character strings.  A JSON value is a       *)
(* tagged record [t, v].  A provider completion is a sequence of tokens:   *)
(* the characters "{", "}", " ", a prose word "w", and pair tokens that    *)
(* stand for one `"key": value` member of a JSON object.                   *)
(***************************************************************************)
EXTENDS Integers, Sequences, FiniteSets, TLC

(* ------------------------------ bounds -------------------------------- *)

\* longest text, counted in pieces, that the function inputs are built from
MaxPieces == 3
\* most members of a JSON object in a provider completion
MaxPairs == 1
\* most documents in the folder
MaxDocs == 2
\* most runs of main() in one behaviour
MaxRuns == 2
\* pages of a PDF, and entries of a tags list, in the function checks
MaxPages == 3
MaxTags == 2

(* ------------------------- program constants -------------------------- *)

\* text[:8000], the prefix of the text put in the compression prompt
CompressPromptChars == 8000
\* text[:4000], the prefix of the text put in the summarization prompt
SummarizePromptChars == 4000
\* text[:300], the extractive fallback when no sentence is found
FallbackChars == 300
\* sentences[:3]
FallbackSentences == 3
\* res.status_code >= 400
ErrorStatus == 400

(* ------------------------------ strings ------------------------------- *)

Min(S) == CHOOSE x \in S : \A y \in S : x <= y
Max(S) == 0 - Min({0 - x : x \in S})

\* str.isspace for one character
IsSpace(c) == c \in {" ", "\n"}

\* the characters of the class [.!?]
IsTerminal(c) == c \in {".", "!", "?"}

\* s[:n]
Prefix(s, n) == SubSeq(s, 1, IF Len(s) < n THEN Len(s) ELSE n)

\* str.strip(): drop leading and trailing whitespace
strip(s) ==
    LET keep == {i \in 1..Len(s) : ~IsSpace(s[i])}
    IN  IF keep = {} THEN <<>> ELSE SubSeq(s, Min(keep), Max(keep))

\* str.find(c): index of the first c (1-based), 0 when absent (-1 in Python)
find(s, c) ==
    LET at == {i \in 1..Len(s) : s[i] = c}
    IN  IF at = {} THEN 0 ELSE Min(at)

\* str.rfind(c) + 1: one past the last c (as a 1-based last index), 0 when absent
rfind(s, c) ==
    LET at == {i \in 1..Len(s) : s[i] = c}
    IN  IF at = {} THEN 0 ELSE Max(at)

\* raw_output[json_start:json_end] with json_start = find("{"), json_end = rfind("}") + 1.
\* Python slices with a start of -1 when "{" is absent: the slice then starts at
\* the last character.
JsonSlice(raw) ==
    LET js == find(raw, "{")
        je == rfind(raw, "}")
        from == IF js = 0 THEN Len(raw) ELSE js
    IN  IF Len(raw) = 0 THEN <<>> ELSE SubSeq(raw, from, je)

\* "".join(parts)
RECURSIVE Flatten(_)
Flatten(parts) ==
    IF Len(parts) = 0 THEN <<>> ELSE parts[1] \o Flatten(Tail(parts))

\* " ".join(parts)
RECURSIVE JoinSpace(_)
JoinSpace(parts) ==
    IF Len(parts) = 0 THEN <<>>
    ELSE IF Len(parts) = 1 THEN parts[1]
    ELSE parts[1] \o <<" ">> \o JoinSpace(Tail(parts))

\* re.findall(r"[^.!?]+[.!?]+", text), scanning from position p: the next match
\* starts at the first non-terminal character at or after p that is followed,
\* after its run of non-terminal characters, by a terminal one; it ends with
\* that run of terminal characters.
RECURSIVE FindAllFrom(_, _)
FindAllFrom(text, p) ==
    LET n == Len(text)
        starts == {i \in p..n : ~IsTerminal(text[i])}
    IN  IF starts = {} THEN <<>>
        ELSE LET i == Min(starts)
                 terms == {j \in i..n : IsTerminal(text[j])}
             IN  IF terms = {} THEN <<>>
                 ELSE LET j == Min(terms)
                          after == {k \in j..n : ~IsTerminal(text[k])}
                          e == IF after = {} THEN n ELSE Min(after) - 1
                      IN  <<SubSeq(text, i, e)>> \o FindAllFrom(text, e + 1)

findall(text) == FindAllFrom(text, 1)

(* ---------------------------- JSON values ----------------------------- *)

Str(s) == [t |-> "str", v |-> s]
List(l) == [t |-> "list", v |-> l]
\* a number, v its decimal digits
Num == [t |-> "num", v |-> <<"7">>]
\* None (JSON null)
Null == [t |-> "null", v |-> <<>>]
\* an attribute the message object does not have
Absent == [t |-> "absent", v |-> <<>>]

IsStr(x) == x.t = "str"
IsList(x) == x.t = "list"

\* the keys of a SummaryRecord, in the order the code lists them
SummaryKeys ==
    <<"title", "objective", "methods", "results", "contributions",
      "one_sentence_summary", "authors", "tags">>

KeySet == {SummaryKeys[i] : i \in 1..Len(SummaryKeys)}

\* The members a provider completion may carry: token |-> <<key, value>>.
PairTokens ==
    {"oss=text", "oss=empty", "oss=blank", "oss=num", "oss=null",
     "tags=list", "tags=str", "tags=null", "title=text", "title=num",
     "year=num"}

PairKey(tok) ==
    CASE tok \in {"oss=text", "oss=empty", "oss=blank", "oss=num", "oss=null"}
            -> "one_sentence_summary"
      [] tok \in {"tags=list", "tags=str", "tags=null"} -> "tags"
      [] tok \in {"title=text", "title=num"} -> "title"
      [] tok = "year=num" -> "year"

PairValue(tok) ==
    CASE tok = "oss=text"   -> Str(<<"S", ".">>)
      [] tok = "oss=empty"  -> Str(<<>>)
      [] tok = "oss=blank"  -> Str(<<" ">>)
      [] tok = "oss=num"    -> Num
      [] tok = "oss=null"   -> Null
      [] tok = "tags=list"  -> List(<<Str(<<"m", "l">>), Str(<<"n">>)>>)
      [] tok = "tags=str"   -> Str(<<"m", "l">>)
      [] tok = "tags=null"  -> Null
      [] tok = "title=text" -> Str(<<"T">>)
      [] tok = "title=num"  -> Num
      [] tok = "year=num"   -> Num

\* json.loads(json_str) raises unless json_str is one object: "{", members
\* separated by whitespace, "}".
JsonLoadsRaises(js) ==
    \/ Len(js) < 2
    \/ js[1] # "{"
    \/ js[Len(js)] # "}"
    \/ \E i \in 2..(Len(js) - 1) : ~(js[i] \in PairTokens \/ IsSpace(js[i]))

\* json.loads(json_str): the dict of the members, a later member replacing an
\* earlier one with the same key.
JsonLoads(js) ==
    LET at == {i \in 2..(Len(js) - 1) : js[i] \in PairTokens}
        keys == {PairKey(js[i]) : i \in at}
    IN  [k \in keys |->
            PairValue(js[Max({i \in at : PairKey(js[i]) = k})])]

\* dict.get(key, default)
Get(d, key, default) == IF key \in DOMAIN d THEN d[key] ELSE default

(* ------------------------- the LLM provider --------------------------- *)

\* One outcome of fw.chat.completions.create: it raises, or it returns a
\* message with a content (None or a string) and maybe a reasoning_content.
Raises == [raises |-> TRUE, content |-> Null, reasoning |-> Absent]
Message(c, r) == [raises |-> FALSE, content |-> c, reasoning |-> r]

\* Python truthiness of an optional string: None and "" are falsy
Truthy(x) == IsStr(x) /\ Len(x.v) > 0

\* (message.content or getattr(message, "reasoning_content", "") or "").strip()
RawOutput(prov) ==
    strip(IF Truthy(prov.content) THEN prov.content.v
          ELSE IF Truthy(prov.reasoning) THEN prov.reasoning.v
          ELSE <<>>)

(* ------------------- compress_text_with_fireworks --------------------- *)

\* the part of the text that the prompt embeds: {text[:8000]}
CompressPrompt(text) == Prefix(text, CompressPromptChars)

\* mutant: the fallback returns what the prompt embedded
compress_returns_prompt_text(text, prov) ==
    IF strip(text) = <<>> THEN <<>>
    ELSE IF prov.raises THEN CompressPrompt(text)
    ELSE RawOutput(prov)

compress_text_with_fireworks(text, prov) ==
    IF strip(text) = <<>> THEN <<>>
    ELSE IF prov.raises THEN text
    ELSE RawOutput(prov)

(* --------------------------- summarize_text --------------------------- *)

\* the part of the text that the prompt embeds: {text[:4000]}
SummarizePrompt(text) == Prefix(text, SummarizePromptChars)

\* {k: "" for k in [...]}: the record returned for an empty text
EmptySummary == [k \in KeySet |-> Str(<<>>)]

\* mutant: every missing key, tags too, is set to the empty string
SetDefaultsAllStrings(data) ==
    [k \in KeySet \cup DOMAIN data |->
        IF k \in DOMAIN data THEN data[k] ELSE Str(<<>>)]

\* data.setdefault(k, "" if k != "tags" else []) for each of the eight keys
SetDefaults(data) ==
    [k \in KeySet \cup DOMAIN data |->
        IF k \in DOMAIN data THEN data[k]
        ELSE IF k # "tags" THEN Str(<<>>) ELSE List(<<>>)]

\* mutant: the sentences joined without the space
ExtractiveSummaryNoSpace(text) ==
    LET sentences == findall(text)
    IN  [k \in KeySet |->
            IF k = "one_sentence_summary"
            THEN Str(IF Len(sentences) > 0
                     THEN Flatten(Prefix(sentences, FallbackSentences))
                     ELSE Prefix(text, FallbackChars))
            ELSE IF k = "tags" THEN List(<<>>)
            ELSE Str(<<>>)]

\* the except branch: the extractive summary
ExtractiveSummary(text) ==
    LET sentences == findall(text)
    IN  [k \in KeySet |->
            IF k = "one_sentence_summary"
            THEN Str(IF Len(sentences) > 0
                     THEN JoinSpace(Prefix(sentences, FallbackSentences))
                     ELSE Prefix(text, FallbackChars))
            ELSE IF k = "tags" THEN List(<<>>)
            ELSE Str(<<>>)]

\* whether the try block of summarize_text raises
SummarizeRaises(prov) ==
    prov.raises \/ JsonLoadsRaises(JsonSlice(RawOutput(prov)))

summarize_text(text, prov) ==
    IF Len(text) = 0 THEN EmptySummary
    ELSE IF SummarizeRaises(prov) THEN ExtractiveSummary(text)
    ELSE SetDefaults(JsonLoads(JsonSlice(RawOutput(prov))))

(* ------------------------ extract_text_from_pdf ----------------------- *)

\* One outcome of the MarkItDown request: it fails (network error, non-2xx,
\* no "text" in the reply) or the reply carries a text.
MarkItDownFails == [fails |-> TRUE, text |-> <<>>]
MarkItDownText(t) == [fails |-> FALSE, text |-> t]

\* One outcome of PyPDF2: opening the file raises, or it yields the pages,
\* each page's extract_text() returning a string, returning None, or raising.
PageRaises == [t |-> "raise", v |-> <<>>]
PyPdfRaises == [raises |-> TRUE, pages |-> <<>>]
PyPdfPages(ps) == [raises |-> FALSE, pages |-> ps]

\* page.extract_text() or ""
PageText(pg) == IF Truthy(pg) THEN pg.v ELSE <<>>

\* mutant: the fallback joins the pages without the separating space
extract_text_pages_run_together(mk, py) ==
    IF ~mk.fails /\ strip(mk.text) # <<>> THEN mk.text
    ELSE IF py.raises \/ \E i \in 1..Len(py.pages) : py.pages[i].t = "raise"
         THEN <<>>
         ELSE strip(Flatten([i \in 1..Len(py.pages) |-> PageText(py.pages[i])]))

extract_text_from_pdf(mk, py) ==
    IF ~mk.fails /\ strip(mk.text) # <<>> THEN mk.text
    ELSE IF py.raises \/ \E i \in 1..Len(py.pages) : py.pages[i].t = "raise"
         THEN <<>>
         ELSE strip(JoinSpace([i \in 1..Len(py.pages) |-> PageText(py.pages[i])]))

(* --------------------------- Notion helpers --------------------------- *)

\* str(value)
PyStr(x) ==
    CASE x.t = "str"  -> x.v
      [] x.t = "num"  -> x.v
      [] x.t = "null" -> <<"N", "o", "n", "e">>
      [] OTHER        -> <<>>

\* "; ".join(parts)
RECURSIVE JoinSemi(_)
JoinSemi(parts) ==
    IF Len(parts) = 0 THEN <<>>
    ELSE IF Len(parts) = 1 THEN parts[1]
    ELSE parts[1] \o <<";", " ">> \o JoinSemi(Tail(parts))

normalize_text(value) ==
    IF IsList(value)
    THEN JoinSemi([i \in 1..Len(value.v) |-> PyStr(value.v[i])])
    ELSE PyStr(value)

\* `for t in summary_data.get("tags", [])` raises TypeError unless the value
\* is iterable
TagsRaise(summary) == ~(Get(summary, "tags", List(<<>>)).t \in {"list", "str"})

\* [{"name": normalize_text(t)} for t in summary_data.get("tags", [])]:
\* iterating a list yields its elements, iterating a string its characters
TagList(summary) ==
    LET tags == Get(summary, "tags", List(<<>>))
    IN  IF IsList(tags)
        THEN [i \in 1..Len(tags.v) |-> normalize_text(tags.v[i])]
        ELSE [i \in 1..Len(tags.v) |-> normalize_text(Str(<<tags.v[i]>>))]

\* mutant: the page carries the status that update_notion_summary writes
NewPageUpdated(name, summary, now) ==
    [FileName |-> name, Status |-> "Updated", Tag |-> TagList(summary),
     DateAdded |-> now]

\* the page that push_to_notion asks the store to create; `now` stands for
\* datetime.now()
NewPage(name, summary, now) ==
    [FileName |-> name, Status |-> "To Read", Tag |-> TagList(summary),
     DateAdded |-> now]

\* mutant: the filter on the wrong property
QueryResultsByStatus(pages, file_name) ==
    SelectSeq(pages, LAMBDA pg : pg.Status = file_name)

\* results of the File-Name filter query: the pages with that File-Name
QueryResults(pages, file_name) ==
    SelectSeq(pages, LAMBDA pg : pg.FileName = file_name)

\* mutant: a failed request still yields the page
find_despite_failure(pages, file_name, answered) ==
    IF Len(QueryResults(pages, file_name)) > 0
    THEN <<QueryResults(pages, file_name)[1]>>
    ELSE <<>>

\* mutant: the lookup that never finds a page
find_never(pages, file_name, answered) == <<>>

\* find_notion_page_by_file_name: results[0] if results else None; None when
\* the request fails.  The result is <<page>> or <<>> (None).
find_notion_page_by_file_name(pages, file_name, answered) ==
    IF answered /\ Len(QueryResults(pages, file_name)) > 0
    THEN <<QueryResults(pages, file_name)[1]>>
    ELSE <<>>

\* summary_data.get("one_sentence_summary", "").strip() raises AttributeError
\* unless the value is a string
OneSentenceRaises(summary) ==
    ~IsStr(Get(summary, "one_sentence_summary", Str(<<>>)))

\* mutant: the check without strip()
OneSentenceEmpty(summary) ==
    Len(Get(summary, "one_sentence_summary", Str(<<>>)).v) = 0

\* not summary_data.get("one_sentence_summary", "").strip()
OneSentenceBlank(summary) ==
    strip(Get(summary, "one_sentence_summary", Str(<<>>)).v) = <<>>

\* mutant: a recorded file is not skipped
AlreadyRecordedNever(notion_page) == FALSE

\* `if notion_page:` the file is already recorded
AlreadyRecorded(notion_page) == Len(notion_page) > 0

\* mutant: an empty text is not skipped
NoTextExtractedNever(t) == FALSE

\* `if not text.strip():` nothing was extracted
NoTextExtracted(t) == strip(t) = <<>>

(* ------------------------- the orchestrator --------------------------- *)

VARIABLES
    folder,      \* the configured folder: whether it exists, and its *.pdf names
    store,       \* the pages of the Notion database, in creation order
    runs,        \* how many runs of main() have started
    pc,          \* per process: where its run of main() stands
    idx,         \* per process: position in pdf_files of the current document
    text,        \* per process: the local `text`
    compressed,  \* per process: the local `compressed_text`
    summary,     \* per process: the local `summary_data`
    log,         \* per process: the external calls of its current run, in order
    runNo,       \* per process: which run (1, 2, ...) it is in
    startNames,  \* per process: the File-Names in the store when its run began
    missed,      \* per process: the filenames that have a page and whose query
                 \* failed in its run
    rejected,    \* per process: the filenames whose create call its previous
                 \* run saw rejected (kept by the retry specification only)
    llmFailed,   \* per process: whether the provider has yielded nothing
                 \* usable in every LLM stage of its latest iteration so far
    misanswered, \* whether some query ever failed for a filename that has a page
    fnOp,        \* function checks: which function was applied, or which inputs wait
    fnText,      \* function checks: the input text
    fnProv,      \* function checks: the provider outcome
    fnPrompt,    \* function checks: the text embedded in the prompt
    fnCompressed,\* function checks: result of compress_text_with_fireworks
    fnSummary,   \* function checks: result of summarize_text
    fnMk,        \* function checks: outcome of the MarkItDown request
    fnPy,        \* function checks: outcome of the PyPDF2 reading
    fnExtracted, \* function checks: result of extract_text_from_pdf
    fnTags,      \* function checks: the summary object whose tags are sent
    fnTagList    \* function checks: the Tag multi_select of the payload

mainVars ==
    <<folder, store, runs, pc, idx, text, compressed, summary, log, runNo,
      startNames, missed, rejected, llmFailed, misanswered>>
fnVars ==
    <<fnOp, fnText, fnProv, fnPrompt, fnCompressed, fnSummary, fnMk, fnPy,
      fnExtracted, fnTags, fnTagList>>
vars == <<mainVars, fnVars>>

\* the processes that may run main(); the sequential specification uses one
Procs == {"A", "B"}
SeqProcs == {"A"}

Names == {"paper1.pdf", "paper2.pdf", "paper3.pdf"}

\* list(folder.glob("*.pdf")): distinct names, in any order
Listings ==
    {f \in UNION {[1..n -> Names] : n \in 0..MaxDocs} :
        \A i, j \in DOMAIN f : i # j => f[i] # f[j]}

Folders ==
    {[exists |-> FALSE, files |-> <<>>]}
        \cup {[exists |-> TRUE, files |-> f] : f \in Listings}

\* a page left by an earlier run
OldPage(name) ==
    [FileName |-> name, Status |-> "To Read", Tag |-> <<>>, DateAdded |-> 0]

\* the stores a first run may find: at most one page per name
InitialStores == {<<>>, <<OldPage("paper2.pdf")>>}

StoreNames(pages) == {pages[i].FileName : i \in 1..Len(pages)}

\* outcomes of the external calls that a run of main() may meet
MainMarkItDown == {MarkItDownFails, MarkItDownText(<<"a", " ", ".">>)}
MainPyPdf ==
    {PyPdfRaises, PyPdfPages(<<Str(<<"a">>), Str(<<".">>)>>),
     PyPdfPages(<<Str(<<" ">>), Null>>)}
MainCompress ==
    {Raises, Message(Str(<<"c", ".">>), Absent), Message(Null, Str(<<" ">>))}
MainSummarize ==
    {Raises,
     Message(Str(<<"w">>), Absent),
     Message(Str(<<"{", "oss=text", "}">>), Absent),
     Message(Str(<<"{", "oss=blank", "}">>), Absent),
     Message(Str(<<"{", "oss=num", "}">>), Absent),
     Message(Str(<<"{", "oss=text", "tags=null", "}">>), Absent)}
\* requests.post of the create call: it raises, or answers with a status code
CreateRaises == [raises |-> TRUE, status |-> 0]
CreateAnswers(code) == [raises |-> FALSE, status |-> code]
MainCreate == {CreateRaises, CreateAnswers(200), CreateAnswers(400)}

\* a call that main() makes for the file `name`, and what came of it
Call(op, name, res) == [op |-> op, name |-> name, res |-> res]

NoSummary == EmptySummary

\* no run of main() has started
NoRun ==
    /\ runs = 0
    /\ pc = [p \in Procs |-> "idle"]
    /\ idx = [p \in Procs |-> 0]
    /\ text = [p \in Procs |-> <<>>]
    /\ compressed = [p \in Procs |-> <<>>]
    /\ summary = [p \in Procs |-> NoSummary]
    /\ log = [p \in Procs |-> <<>>]
    /\ runNo = [p \in Procs |-> 0]
    /\ startNames = [p \in Procs |-> {}]
    /\ missed = [p \in Procs |-> {}]
    /\ rejected = [p \in Procs |-> {}]
    /\ llmFailed = [p \in Procs |-> FALSE]
    /\ misanswered = FALSE

FnIdle ==
    /\ fnOp = "none"
    /\ fnText = <<>>
    /\ fnProv = Raises
    /\ fnPrompt = <<>>
    /\ fnCompressed = <<>>
    /\ fnSummary = NoSummary
    /\ fnMk = MarkItDownFails
    /\ fnPy = PyPdfRaises
    /\ fnExtracted = <<>>
    /\ fnTags = NoSummary
    /\ fnTagList = <<>>

Init ==
    /\ folder \in Folders
    /\ store \in InitialStores
    /\ NoRun
    /\ FnIdle

filename(p) == folder.files[idx[p]]

\* mutant: the loop passes over the file that follows
NextFileSkipping(p) ==
    /\ idx' = [idx EXCEPT ![p] = idx[p] + 2]
    /\ pc' = [pc EXCEPT ![p] =
                IF idx[p] + 2 > Len(folder.files) THEN "done" ELSE "query"]
    /\ text' = [text EXCEPT ![p] = <<>>]
    /\ compressed' = [compressed EXCEPT ![p] = <<>>]
    /\ summary' = [summary EXCEPT ![p] = NoSummary]

\* mutant: the loop takes the same file again
NextFileAgain(p) ==
    /\ idx' = idx
    /\ pc' = [pc EXCEPT ![p] = "query"]
    /\ text' = [text EXCEPT ![p] = <<>>]
    /\ compressed' = [compressed EXCEPT ![p] = <<>>]
    /\ summary' = [summary EXCEPT ![p] = NoSummary]

\* the end of one iteration of the for loop (a `continue`, or the end of the
\* body): the locals are dropped and the loop moves to the next file, or main()
\* prints "Sync complete" and returns
NextFile(p) ==
    /\ idx' = [idx EXCEPT ![p] = idx[p] + 1]
    /\ pc' = [pc EXCEPT ![p] =
                IF idx[p] + 1 > Len(folder.files) THEN "done" ELSE "query"]
    /\ text' = [text EXCEPT ![p] = <<>>]
    /\ compressed' = [compressed EXCEPT ![p] = <<>>]
    /\ summary' = [summary EXCEPT ![p] = NoSummary]

\* an exception that main() does not catch ends the run
Crash(p) ==
    /\ pc' = [pc EXCEPT ![p] = "crashed"]
    /\ UNCHANGED <<idx, text, compressed, summary>>

\* mutant: main() enters the loop whatever the folder holds
NoDocumentsIgnored(f) == FALSE

\* `if not folder.exists(): return` and `if not pdf_files: return`
NoDocuments(f) == ~f.exists \/ Len(f.files) = 0

\* main(), lines 31-43: the folder checks; `seen` is what is remembered of
\* the process's previous run
EnterMain(p, seen) ==
    /\ pc[p] \in {"idle", "done", "crashed"}
    /\ runs < MaxRuns
    /\ runs' = runs + 1
    /\ runNo' = [runNo EXCEPT ![p] = runs + 1]
    /\ log' = [log EXCEPT ![p] = <<>>]
    /\ startNames' = [startNames EXCEPT ![p] = StoreNames(store)]
    /\ missed' = [missed EXCEPT ![p] = {}]
    /\ rejected' = [rejected EXCEPT ![p] = seen]
    /\ llmFailed' = [llmFailed EXCEPT ![p] = FALSE]
    /\ text' = [text EXCEPT ![p] = <<>>]
    /\ compressed' = [compressed EXCEPT ![p] = <<>>]
    /\ summary' = [summary EXCEPT ![p] = NoSummary]
    /\ IF NoDocuments(folder)
       THEN pc' = [pc EXCEPT ![p] = "done"] /\ idx' = [idx EXCEPT ![p] = 0]
       ELSE pc' = [pc EXCEPT ![p] = "query"] /\ idx' = [idx EXCEPT ![p] = 1]
    /\ UNCHANGED <<folder, store, misanswered, fnVars>>

StartRun(p) == EnterMain(p, {})

\* the filenames whose create call was rejected in the run that `calls` logs
RejectedIn(calls) ==
    {n \in Names :
        \E i \in 1..Len(calls) : calls[i] = Call("create", n, "rejected")}

\* a run that starts knowing which create calls the previous run saw rejected
StartRunAfter(p) == EnterMain(p, RejectedIn(log[p]))

\* main(), lines 49-52: the filename query and the skip of a recorded file
Query(p) ==
    /\ pc[p] = "query"
    /\ \E answered \in BOOLEAN :
         LET notion_page ==
                 find_notion_page_by_file_name(store, filename(p), answered)
             res == IF Len(notion_page) > 0 THEN "found" ELSE "none"
         IN  /\ log' = [log EXCEPT ![p] = Append(@, Call("query", filename(p), res))]
             /\ missed' = [missed EXCEPT ![p] =
                             IF ~answered /\ filename(p) \in StoreNames(store)
                             THEN @ \cup {filename(p)} ELSE @]
             /\ misanswered' =
                  (misanswered \/ (~answered /\ filename(p) \in StoreNames(store)))
             /\ IF AlreadyRecorded(notion_page)
                THEN NextFile(p)
                ELSE /\ pc' = [pc EXCEPT ![p] = "extract"]
                     /\ UNCHANGED <<idx, text, compressed, summary>>
    /\ llmFailed' = [llmFailed EXCEPT ![p] = FALSE]
    /\ UNCHANGED <<folder, store, runs, runNo, startNames, rejected, fnVars>>

\* main(), lines 55-59: extraction and the skip of an empty text
Extract(p) ==
    /\ pc[p] = "extract"
    /\ \E mk \in MainMarkItDown, py \in MainPyPdf :
         LET t == extract_text_from_pdf(mk, py)
             res == IF strip(t) = <<>> THEN "blank" ELSE "text"
         IN  /\ log' = [log EXCEPT ![p] = Append(@, Call("extract", filename(p), res))]
             /\ IF NoTextExtracted(t)
                THEN NextFile(p)
                ELSE /\ text' = [text EXCEPT ![p] = t]
                     /\ pc' = [pc EXCEPT ![p] = "compress"]
                     /\ UNCHANGED <<idx, compressed, summary>>
    /\ UNCHANGED <<folder, store, runs, runNo, startNames, missed, rejected,
                   llmFailed, misanswered, fnVars>>

\* the compression provider yields nothing usable: the call raises, or the
\* completion is empty once stripped
CompressUnusable(prov) == prov.raises \/ RawOutput(prov) = <<>>

\* main(), line 63
Compress(p) ==
    /\ pc[p] = "compress"
    /\ \E prov \in MainCompress :
         LET c == compress_text_with_fireworks(text[p], prov)
             res == IF strip(c) = <<>> THEN "blank" ELSE "text"
         IN  /\ compressed' = [compressed EXCEPT ![p] = c]
             /\ llmFailed' = [llmFailed EXCEPT ![p] = CompressUnusable(prov)]
             /\ log' = [log EXCEPT ![p] = Append(@, Call("compress", filename(p), res))]
    /\ pc' = [pc EXCEPT ![p] = "summarize"]
    /\ UNCHANGED <<folder, store, runs, idx, text, summary, runNo, startNames,
                   missed, rejected, misanswered, fnVars>>

\* main(), lines 65-69: summarization and the skip of an empty summary
Summarize(p) ==
    /\ pc[p] = "summarize"
    /\ \E prov \in MainSummarize :
         LET summary_data == summarize_text(compressed[p], prov)
             oss == Get(summary_data, "one_sentence_summary", Str(<<>>))
             res == IF ~IsStr(oss) THEN "untyped"
                    ELSE IF strip(oss.v) = <<>> THEN "blank" ELSE "text"
         IN  /\ log' = [log EXCEPT ![p] =
                          Append(@, Call("summarize", filename(p), res))]
             /\ llmFailed' = [llmFailed EXCEPT ![p] = @ /\ SummarizeRaises(prov)]
             /\ IF OneSentenceRaises(summary_data)
                THEN Crash(p)
                ELSE IF OneSentenceBlank(summary_data)
                THEN NextFile(p)
                ELSE /\ summary' = [summary EXCEPT ![p] = summary_data]
                     /\ pc' = [pc EXCEPT ![p] = "create"]
                     /\ UNCHANGED <<idx, text, compressed>>
    /\ UNCHANGED <<folder, store, runs, runNo, startNames, missed, rejected,
                   misanswered, fnVars>>

\* mutant: the page exists although the create call was answered with an error
CreateDespiteRejection(p) ==
    /\ pc[p] = "create"
    /\ IF TagsRaise(summary[p])
       THEN /\ log' = [log EXCEPT ![p] =
                         Append(@, Call("create", filename(p), "unsent"))]
            /\ Crash(p)
            /\ UNCHANGED store
       ELSE \E res \in MainCreate :
              IF res.raises
              THEN /\ log' = [log EXCEPT ![p] =
                                Append(@, Call("create", filename(p), "raised"))]
                   /\ Crash(p)
                   /\ UNCHANGED store
              ELSE IF res.status >= ErrorStatus
              THEN /\ log' = [log EXCEPT ![p] =
                                Append(@, Call("create", filename(p), "rejected"))]
                   /\ store' = Append(store, NewPage(filename(p), summary[p], runNo[p]))
                   /\ NextFile(p)
              ELSE /\ log' = [log EXCEPT ![p] =
                                Append(@, Call("create", filename(p), "created"))]
                   /\ store' = Append(store, NewPage(filename(p), summary[p], runNo[p]))
                   /\ NextFile(p)
    /\ UNCHANGED <<folder, runs, runNo, startNames, missed, rejected,
                   llmFailed, misanswered, fnVars>>

\* main(), line 72: push_to_notion.  Building the payload may raise before the
\* request is sent; the request may raise; a status below 400 means the page
\* was created.
Create(p) ==
    /\ pc[p] = "create"
    /\ IF TagsRaise(summary[p])
       THEN /\ log' = [log EXCEPT ![p] =
                         Append(@, Call("create", filename(p), "unsent"))]
            /\ Crash(p)
            /\ UNCHANGED store
       ELSE \E res \in MainCreate :
              IF res.raises
              THEN /\ log' = [log EXCEPT ![p] =
                                Append(@, Call("create", filename(p), "raised"))]
                   /\ Crash(p)
                   /\ UNCHANGED store
              ELSE IF res.status >= ErrorStatus
              THEN /\ log' = [log EXCEPT ![p] =
                                Append(@, Call("create", filename(p), "rejected"))]
                   /\ NextFile(p)
                   /\ UNCHANGED store
              ELSE /\ log' = [log EXCEPT ![p] =
                                Append(@, Call("create", filename(p), "created"))]
                   /\ store' = Append(store, NewPage(filename(p), summary[p], runNo[p]))
                   /\ NextFile(p)
    /\ UNCHANGED <<folder, runs, runNo, startNames, missed, rejected,
                   llmFailed, misanswered, fnVars>>

Step(p) ==
    \/ StartRun(p)
    \/ Query(p)
    \/ Extract(p)
    \/ Compress(p)
    \/ Summarize(p)
    \/ Create(p)

\* runs of main() one after the other
Next == \E p \in SeqProcs : Step(p)

Spec == Init /\ [][Next]_vars

\* runs one after the other on a folder whose files are listed in one fixed
\* order, each run remembering the rejected create calls of the one before
RetryOrder == <<"paper2.pdf", "paper1.pdf", "paper3.pdf">>
RetryFolders ==
    {f \in Folders :
        /\ Len(f.files) >= 1
        /\ \A i \in 1..Len(f.files) : f.files[i] = RetryOrder[i]}

InitRetry ==
    /\ folder \in RetryFolders
    /\ store \in InitialStores
    /\ NoRun
    /\ FnIdle

NextRetry ==
    \E p \in SeqProcs :
        \/ StartRunAfter(p)
        \/ Query(p)
        \/ Extract(p)
        \/ Compress(p)
        \/ Summarize(p)
        \/ Create(p)

SpecRetry == InitRetry /\ [][NextRetry]_vars

\* runs of main() by two processes at once, on the same folder and the same
\* store, which may already hold the folder's one file; each step is one
\* external call of one process
ConcFolders == {f \in RetryFolders : Len(f.files) = 1}

InitConc ==
    /\ folder \in ConcFolders
    /\ store \in InitialStores
    /\ NoRun
    /\ FnIdle

NextConc == \E p \in Procs : Step(p)

SpecConc == InitConc /\ [][NextConc]_vars

(* ------------------- the stages as functions of inputs ---------------- *)

Repeat(c, n) == [i \in 1..n |-> c]

\* the pieces the input texts are built from
Pieces == {<<"a", ".">>, <<" ", "b", "?">>, <<"c">>, <<" ">>, <<"!">>}

ShortTexts ==
    {Flatten(ps) : ps \in UNION {[1..n -> Pieces] : n \in 0..MaxPieces}}

\* texts with more sentences than the fallback keeps, and texts longer than
\* the prefixes the code cuts
LongTexts ==
    {<<"a", ".", " ", "b", "?", " ", "c", "!", " ", "d", ".">>,
     <<"a", ".", ".", "b", "!", "c", "?", "d", "?", "e">>,
     Repeat("a", FallbackChars + 1),
     <<" ">> \o Repeat("a", FallbackChars) \o <<" ">>,
     Repeat("a", FallbackChars + 1) \o <<".">>,
     Repeat("a", CompressPromptChars + 1),
     <<" ">> \o Repeat("a", CompressPromptChars) \o <<".", " ">>}

Texts == ShortTexts \cup LongTexts

OptTexts(S) == {Null, Absent} \cup {Str(t) : t \in S}

CompressOutcomes ==
    {Raises} \cup
    {Message(c, r) :
        c \in OptTexts({<<>>, <<" ">>, <<"x", ".">>, <<" ", "x", " ">>}) \ {Absent},
        r \in OptTexts({<<>>, <<" ">>, <<"r">>})}

\* completions of the summarization call
Objects ==
    {<<"{">> \o body \o <<"}">> :
        body \in UNION {[1..n -> PairTokens \cup {" "}] : n \in 0..MaxPairs}}
RawOutputs ==
    {pre \o obj \o post :
        pre \in {<<>>, <<"w">>, <<" ">>}, obj \in Objects, post \in {<<>>, <<"w">>}}
    \cup UNION {[1..n -> {"{", "}", "w"}] : n \in 1..2}

SummarizeOutcomes ==
    {Raises} \cup
    {Message(Str(raw), Absent) : raw \in RawOutputs} \cup
    {Message(c, r) :
        c \in {Null, Str(<<>>)},
        r \in OptTexts({<<>>, <<"w">>, <<"{", "oss=text", "}">>})}

\* what page.extract_text() may do for one page
PageOutcomes ==
    {Str(<<"a">>), Str(<<" ", "b">>), Str(<<"c", " ">>), Str(<<" ">>),
     Str(<<>>), Null, PageRaises}

PyPdfOutcomes ==
    {PyPdfRaises} \cup
    {PyPdfPages(ps) : ps \in UNION {[1..n -> PageOutcomes] : n \in 0..MaxPages}}

MarkItDownOutcomes ==
    {MarkItDownFails, MarkItDownText(<<>>), MarkItDownText(<<" ">>),
     MarkItDownText(<<" ", "m", ".", " ">>)}

\* values of the "tags" key of a summary object
TagNames == {<<"m", "l">>, <<"n", ";">>, <<>>}
TagsValues ==
    {Str(t) : t \in TagNames} \cup {Null, Num} \cup
    {List(ts) :
        ts \in UNION {[1..n -> {Str(t) : t \in TagNames}] : n \in 0..MaxTags}}

TagSummaries ==
    {[k \in KeySet |-> IF k = "tags" THEN v ELSE Str(<<>>)] : v \in TagsValues}

\* the inputs of the text stages
InitText ==
    /\ fnText \in Texts
    /\ fnProv \in CompressOutcomes \cup SummarizeOutcomes
    /\ fnMk = MarkItDownFails
    /\ fnPy = PyPdfRaises
    /\ fnTags = NoSummary

\* the inputs of the extraction
InitExtract ==
    /\ fnText = <<>>
    /\ fnProv = Raises
    /\ fnMk \in MarkItDownOutcomes
    /\ fnPy \in PyPdfOutcomes
    /\ fnTags = NoSummary

\* the inputs of the payload's Tag property
InitTags ==
    /\ fnText = <<>>
    /\ fnProv = Raises
    /\ fnMk = MarkItDownFails
    /\ fnPy = PyPdfRaises
    /\ fnTags \in TagSummaries

InitFn ==
    /\ folder = [exists |-> FALSE, files |-> <<>>]
    /\ store = <<>>
    /\ NoRun
    /\ fnOp \in {"text", "pdf", "tags"}
    /\ fnOp = "text" => InitText
    /\ fnOp = "pdf" => InitExtract
    /\ fnOp = "tags" => InitTags
    /\ fnPrompt = <<>>
    /\ fnCompressed = <<>>
    /\ fnSummary = NoSummary
    /\ fnExtracted = <<>>
    /\ fnTagList = <<>>

ApplyCompress ==
    /\ fnOp = "text"
    /\ fnProv \in CompressOutcomes
    /\ fnOp' = "compress"
    /\ fnPrompt' = CompressPrompt(fnText)
    /\ fnCompressed' = compress_text_with_fireworks(fnText, fnProv)
    /\ UNCHANGED <<fnText, fnProv, fnSummary, fnMk, fnPy, fnExtracted, fnTags,
                   fnTagList, mainVars>>

ApplySummarize ==
    /\ fnOp = "text"
    /\ fnProv \in SummarizeOutcomes
    /\ fnOp' = "summarize"
    /\ fnPrompt' = SummarizePrompt(fnText)
    /\ fnSummary' = summarize_text(fnText, fnProv)
    /\ UNCHANGED <<fnText, fnProv, fnCompressed, fnMk, fnPy, fnExtracted,
                   fnTags, fnTagList, mainVars>>

ApplyExtract ==
    /\ fnOp = "pdf"
    /\ fnOp' = "extract"
    /\ fnExtracted' = extract_text_from_pdf(fnMk, fnPy)
    /\ UNCHANGED <<fnText, fnProv, fnPrompt, fnCompressed, fnSummary, fnMk,
                   fnPy, fnTags, fnTagList, mainVars>>

\* the Tag property built by push_to_notion and update_notion_summary; the
\* comprehension raises TypeError when the tags value cannot be iterated
ApplyTags ==
    /\ fnOp = "tags"
    /\ IF TagsRaise(fnTags)
       THEN fnOp' = "tags raised" /\ fnTagList' = <<>>
       ELSE fnOp' = "payload" /\ fnTagList' = TagList(fnTags)
    /\ UNCHANGED <<fnText, fnProv, fnPrompt, fnCompressed, fnSummary, fnMk,
                   fnPy, fnExtracted, fnTags, mainVars>>

NextFn == ApplyCompress \/ ApplySummarize \/ ApplyExtract \/ ApplyTags

SpecFn == InitFn /\ [][NextFn]_vars

(* ------------------------------ claims -------------------------------- *)

\* the positions in the log of process p of the calls `op`
CallsAt(p, op) == {i \in 1..Len(log[p]) : log[p][i].op = op}
CreateNames(p) == {log[p][i].name : i \in CallsAt(p, "create")}
PagesFor(name) == {i \in 1..Len(store) : store[i].FileName = name}
FolderNames == {folder.files[i] : i \in 1..Len(folder.files)}

\* C1 as stated: a second run of main() on the same folder, with no other
\* writer, makes no create call.
C1_SecondRunCreatesNothing ==
    \A p \in Procs : runNo[p] >= 2 => CreateNames(p) = {}

\* C1, amended: a second run of main() makes a create call only for a file
\* that had no page when the run began or whose query failed in that run; so
\* it makes none when every file had a page and no query failed.
C1_SecondRunCreatesOnlyUnrecorded ==
    \A p \in Procs :
        runNo[p] >= 2 =>
            \A n \in CreateNames(p) : n \notin startNames[p] \/ n \in missed[p]

\* a second run that found a page made by the first run for every file of a
\* folder of two, and created nothing
C1_Witness ==
    \E p \in Procs :
        /\ runNo[p] = 2
        /\ pc[p] = "done"
        /\ Len(folder.files) = 2
        /\ FolderNames \subseteq startNames[p]
        /\ missed[p] = {}
        /\ \E i \in 1..Len(store) :
             store[i].DateAdded = 1 /\ store[i].FileName \in FolderNames
        /\ Len(log[p]) = 2
        /\ CreateNames(p) = {}

\* C2: over runs one after the other, as long as every filename query is
\* answered correctly the store holds at most one page per File-Name, and every
\* create call follows, in its iteration, a query for the same file that found
\* nothing.
C2_OnePagePerFileName ==
    /\ ~misanswered => \A n \in Names : Cardinality(PagesFor(n)) <= 1
    /\ \A p \in Procs : \A i \in CallsAt(p, "create") :
         \E j \in 1..(i - 1) :
            /\ log[p][j] = Call("query", log[p][i].name, "none")
            /\ \A k \in j..i : log[p][k].name = log[p][i].name

\* a second run that skipped the file the first run recorded and created a
\* page for the other
C2_Witness ==
    \E p \in Procs :
        /\ ~misanswered
        /\ runNo[p] = 2
        /\ pc[p] = "done"
        /\ \E i, j \in 1..Len(store) :
             /\ store[i].DateAdded = 1
             /\ store[j].DateAdded = 2
             /\ \E k \in CallsAt(p, "query") :
                  log[p][k] = Call("query", store[i].FileName, "found")

\* C3 as stated: no exception leaves an iteration of main(), whatever the
\* external calls do: no run ends by an uncaught exception.
C3_NoExceptionLeavesMain == \A p \in Procs : pc[p] # "crashed"

\* C4 as stated: with one file of the folder absent from the store and the
\* other found there, a finished run has made exactly one create call, for the
\* absent file.
C4_ExactlyOneCreate ==
    \A p \in Procs : \A a, b \in 1..Len(folder.files) :
        ( /\ pc[p] = "done"
          /\ Len(folder.files) = 2
          /\ a # b
          /\ folder.files[a] \notin startNames[p]
          /\ \E k \in CallsAt(p, "query") :
                log[p][k] = Call("query", folder.files[b], "found") )
        => /\ Cardinality(CallsAt(p, "create")) = 1
           /\ CreateNames(p) = {folder.files[a]}

\* C4, amended: a file whose query returned a page gets no other call in that
\* run; with one file absent from the store and the other found there, the run
\* makes at most one create call, and only for the absent file.
C4_RecordedFileSkipped ==
    \A p \in Procs :
        /\ \A k \in CallsAt(p, "query") :
             log[p][k].res = "found" =>
                \A i \in 1..Len(log[p]) :
                    log[p][i].name = log[p][k].name => i = k
        /\ \A a, b \in 1..Len(folder.files) :
             ( /\ Len(folder.files) = 2
               /\ a # b
               /\ folder.files[a] \notin startNames[p]
               /\ \E k \in CallsAt(p, "query") :
                     log[p][k] = Call("query", folder.files[b], "found") )
             => /\ Cardinality(CallsAt(p, "create")) <= 1
                /\ CreateNames(p) \subseteq {folder.files[a]}

\* a finished run over two files: one found in the store, a page created for
\* the other
C4_Witness ==
    \E p \in Procs : \E a, b \in 1..Len(folder.files) :
        /\ pc[p] = "done"
        /\ a # b
        /\ folder.files[a] \notin startNames[p]
        /\ \E k \in CallsAt(p, "query") :
              log[p][k] = Call("query", folder.files[b], "found")
        /\ \E i \in CallsAt(p, "create") :
              log[p][i] = Call("create", folder.files[a], "created")
        /\ Len(log[p]) = 6

\* C5: after an extraction that returns an empty or whitespace-only text,
\* main() makes no compress, summarize or create call for that file: its next
\* call is the query for the next file, or the run is over.
C5_EmptyTextSkipped ==
    \A p \in Procs : \A i \in CallsAt(p, "extract") :
        log[p][i].res = "blank" =>
            /\ \A k \in (i + 1)..Len(log[p]) : log[p][k].name # log[p][i].name
            /\ i < Len(log[p]) => log[p][i + 1].op = "query"
            /\ i = Len(log[p]) =>
                 /\ pc[p] \in {"query", "done"}
                 /\ pc[p] = "query" => filename(p) # log[p][i].name

\* a run that skipped its first file for an empty text and went on to create
\* a page for the second
C5_Witness ==
    \E p \in Procs :
        /\ Len(log[p]) >= 3
        /\ log[p][2].op = "extract"
        /\ log[p][2].res = "blank"
        /\ log[p][3].op = "query"
        /\ \E i \in CallsAt(p, "create") : log[p][i].res = "created"

\* C6: every create call directly follows a summarize call for the same file
\* whose one_sentence_summary is a string that is not blank; after a summary
\* whose one_sentence_summary is blank there is no call for that file.
C6_CreateNeedsSummary ==
    \A p \in Procs :
        /\ \A i \in CallsAt(p, "create") :
             /\ i > 1
             /\ log[p][i - 1] = Call("summarize", log[p][i].name, "text")
        /\ \A i \in CallsAt(p, "summarize") :
             log[p][i].res = "blank" =>
                \A k \in (i + 1)..Len(log[p]) : log[p][k].name # log[p][i].name

\* a run that skipped one file for a blank summary and created a page for the
\* other
C6_Witness ==
    \E p \in Procs :
        /\ \E i \in CallsAt(p, "summarize") :
             /\ log[p][i].res = "blank"
             /\ log[p][i - 1].res = "text"
        /\ \E i \in CallsAt(p, "create") : log[p][i].res = "created"

\* C7 as stated: summarize_text always returns a record with exactly the eight
\* keys, tags a list and the other seven values strings.
C7_SummaryWellTyped ==
    fnOp = "summarize" =>
        /\ DOMAIN fnSummary = KeySet
        /\ \A k \in DOMAIN fnSummary :
             IF k = "tags" THEN IsList(fnSummary[k]) ELSE IsStr(fnSummary[k])

\* the segments of a text that end in '.', '!' or '?': each begins where a run
\* of other characters begins and ends where the next run of terminal
\* characters ends
SegmentStarts(t) ==
    {i \in 1..Len(t) : ~IsTerminal(t[i]) /\ (i = 1 \/ IsTerminal(t[i - 1]))}
SegmentEnds(t) ==
    {e \in 1..Len(t) : IsTerminal(t[e]) /\ (e = Len(t) \/ ~IsTerminal(t[e + 1]))}
ClosedStarts(t) == {i \in SegmentStarts(t) : \E e \in SegmentEnds(t) : e > i}
Segment(t, i) == SubSeq(t, i, Min({e \in SegmentEnds(t) : e > i}))
\* the k-th smallest element of a set of numbers
RECURSIVE Nth(_, _)
Nth(S, k) == IF k = 1 THEN Min(S) ELSE Nth(S \ {Min(S)}, k - 1)

\* the summary the claim describes
ExpectedFallback(t) ==
    LET S == ClosedStarts(t)
        seg(k) == Segment(t, Nth(S, k))
    IN  IF S = {} THEN SubSeq(t, 1, IF Len(t) < 300 THEN Len(t) ELSE 300)
        ELSE IF Cardinality(S) = 1 THEN seg(1)
        ELSE IF Cardinality(S) = 2 THEN seg(1) \o <<" ">> \o seg(2)
        ELSE seg(1) \o <<" ">> \o seg(2) \o <<" ">> \o seg(3)

\* C8: when the provider call fails or its output holds no parseable JSON,
\* summarize_text of a non-empty text returns the first three segments ending
\* in '.', '!' or '?' joined by one space (the first 300 characters when there
\* is no such segment), and every other field at its default.
C8_ExtractiveFallback ==
    (fnOp = "summarize" /\ Len(fnText) > 0 /\ SummarizeRaises(fnProv)) =>
        /\ DOMAIN fnSummary = KeySet
        /\ fnSummary["one_sentence_summary"] = Str(ExpectedFallback(fnText))
        /\ fnSummary["tags"] = List(<<>>)
        /\ \A k \in KeySet \ {"one_sentence_summary", "tags"} :
             fnSummary[k] = Str(<<>>)

\* prose instead of JSON for a text of four sentences: three are kept
C8_Witness ==
    /\ fnOp = "summarize"
    /\ fnText = <<"a", ".", " ", "b", "?", " ", "c", "!", " ", "d", ".">>
    /\ fnProv = Message(Str(<<"w">>), Absent)
    /\ fnSummary["one_sentence_summary"] =
         Str(<<"a", ".", " ", " ", "b", "?", " ", " ", "c", "!">>)

\* C9: when the provider call of compress_text_with_fireworks raises, the
\* result is the input text itself, for every text that is not blank.
C9_CompressIdentityOnFailure ==
    (fnOp = "compress" /\ fnProv.raises /\ strip(fnText) # <<>>) =>
        fnCompressed = fnText

\* a text longer than the prompt prefix, with whitespace at both ends, comes
\* back whole
C9_Witness ==
    /\ fnOp = "compress"
    /\ fnProv.raises
    /\ Len(fnText) > CompressPromptChars
    /\ IsSpace(fnText[1])
    /\ IsSpace(fnText[Len(fnText)])
    /\ fnPrompt # fnText
    /\ fnCompressed = fnText

\* C10 as stated: when the provider returns without raising but with no
\* content (none, empty or whitespace only), the result is the input text.
C10_CompressIdentityOnEmptyReply ==
    ( /\ fnOp = "compress"
      /\ ~fnProv.raises
      /\ RawOutput(fnProv) = <<>>
      /\ strip(fnText) # <<>> )
    => fnCompressed = fnText

(* C11: the local fallback of the extraction *)

\* the text a page contributes: its text, or the empty string without one
PageString(pg) == IF pg.t = "str" THEN pg.v ELSE <<>>

\* the first n pages' texts with one space between consecutive pages
RECURSIVE ConcatPages(_, _)
ConcatPages(ps, n) ==
    IF n = 0 THEN <<>>
    ELSE IF n = 1 THEN PageString(ps[1])
    ELSE ConcatPages(ps, n - 1) \o <<" ">> \o PageString(ps[n])

RECURSIVE DropLeading(_)
DropLeading(t) ==
    IF t # <<>> /\ Head(t) = " " THEN DropLeading(Tail(t)) ELSE t

RECURSIVE DropTrailing(_)
DropTrailing(t) ==
    IF t # <<>> /\ t[Len(t)] = " "
    THEN DropTrailing(SubSeq(t, 1, Len(t) - 1)) ELSE t

\* the extraction service failed and every page was read
FallbackSucceeded ==
    /\ fnOp = "extract"
    /\ fnMk.fails
    /\ ~fnPy.raises
    /\ \A i \in 1..Len(fnPy.pages) : fnPy.pages[i] # PageRaises

\* C11 as stated: when the extraction service fails and every page is read,
\* extract_text_from_pdf returns exactly the page texts joined by single
\* spaces, whitespace at either end included.
C11_FallbackExactConcatenation ==
    FallbackSucceeded =>
        fnExtracted = ConcatPages(fnPy.pages, Len(fnPy.pages))

\* C11 amended: when the extraction service fails and every page is read,
\* extract_text_from_pdf returns the page texts joined by single spaces with
\* the whitespace at both ends of the joined text removed.
C11_FallbackTrimmedConcatenation ==
    FallbackSucceeded =>
        fnExtracted =
            DropTrailing(DropLeading(ConcatPages(fnPy.pages, Len(fnPy.pages))))

\* a document whose first page has no text and whose last page ends with a
\* space: the result is the inner text only
C11_Witness ==
    /\ FallbackSucceeded
    /\ fnPy.pages = <<Null, Str(<<" ", "b">>), Str(<<"c", " ">>)>>
    /\ fnExtracted = <<"b", " ", "c">>

(* C12: a page whose extraction raises *)

\* C12: when the extraction service fails and the PDF is opened, a page whose
\* text extraction raises contributes the empty string for that page only:
\* the result is still the joined text of the pages, with nothing for the
\* failing page, and is not reduced to the empty text.
C12_PageFailureContributesEmpty ==
    (fnOp = "extract" /\ fnMk.fails /\ ~fnPy.raises) =>
        fnExtracted =
            DropTrailing(DropLeading(ConcatPages(fnPy.pages, Len(fnPy.pages))))

(* C13: the Tag property of the payload *)

\* C13: the tags transmitted are a list with one entry per tag: a tags value
\* that is a sequence of n strings gives n entries named by those strings in
\* the same order, and a tags value that is a single string s gives exactly
\* one entry, named s.
C13_OneEntryPerTag ==
    fnOp = "payload" =>
        LET tags == fnTags["tags"]
        IN  /\ IsList(tags) =>
                  fnTagList = [i \in 1..Len(tags.v) |-> tags.v[i].v]
            /\ IsStr(tags) => fnTagList = <<tags.v>>

(* C14: a filename query that fails *)

\* C14: when the filename query fails for a file that has a page in the
\* store, the lookup reports "not found" without raising and main() goes on
\* to process the file as new: the query is followed by the file's extraction.
C14_FailedQueryTreatedAsNew ==
    \A p \in Procs : \A n \in missed[p] :
        \E i \in CallsAt(p, "query") :
            /\ log[p][i] = Call("query", n, "none")
            /\ IF i = Len(log[p])
               THEN pc[p] = "extract" /\ filename(p) = n
               ELSE log[p][i + 1].op = "extract" /\ log[p][i + 1].name = n

\* a run whose query failed for a recorded file created a second page: the
\* store holds two pages with that File-Name
C14_Witness ==
    \E p \in Procs : \E n \in missed[p] :
        /\ Cardinality(PagesFor(n)) = 2
        /\ \E i \in CallsAt(p, "create") : log[p][i] = Call("create", n, "created")

(* C15: a create call that the store rejects *)

RejectedCalls(p) ==
    {i \in CallsAt(p, "create") : log[p][i].res = "rejected"}

\* in the run of the rejected create call: push_to_notion returns, the loop
\* goes on with the next file, the file gets no second create call, and the
\* run leaves no page for it
RejectedCreateLeavesNothing ==
    \A p \in Procs : \A i \in RejectedCalls(p) :
        LET n == log[p][i].name
        IN  /\ IF i = Len(log[p])
               THEN pc[p] \in {"query", "done"}
               ELSE log[p][i + 1].op = "query" /\ log[p][i + 1].name # n
            /\ {k \in CallsAt(p, "create") : log[p][k].name = n} = {i}
            /\ \A k \in PagesFor(n) : store[k].DateAdded # runNo[p]

\* the query of file n at position i of the log found nothing and the file's
\* extraction follows
QueryThenExtract(p, i, n) ==
    /\ log[p][i].res = "none"
    /\ IF i = Len(log[p])
       THEN pc[p] = "extract" /\ filename(p) = n
       ELSE log[p][i + 1] \in {Call("extract", n, r) : r \in {"blank", "text"}}

\* C15 as stated: a rejected create call does not raise, is not repeated in
\* the same run and leaves no page for the file, and the next run's query for
\* the file finds no record and the file is processed again from extraction.
C15_RejectedCreateRetried ==
    /\ RejectedCreateLeavesNothing
    /\ \A p \in Procs : \A n \in rejected[p] :
         \A i \in CallsAt(p, "query") :
            log[p][i].name = n => QueryThenExtract(p, i, n)

\* C15 amended: the same, where the next run finds no record only for a file
\* that had no page in the store when that run began (the rejected create call
\* may have followed a failed query for a file that was already recorded).
C15_RejectedCreateRetriedIfUnrecorded ==
    /\ RejectedCreateLeavesNothing
    /\ \A p \in Procs : \A n \in rejected[p] \ startNames[p] :
         \A i \in CallsAt(p, "query") :
            log[p][i].name = n => QueryThenExtract(p, i, n)

\* the run after a rejected create call has queried the file, found nothing
\* and extracted it again
C15_Witness ==
    \E p \in Procs : \E n \in rejected[p] \ startNames[p] :
        \E i \in CallsAt(p, "query") :
            /\ log[p][i] = Call("query", n, "none")
            /\ i < Len(log[p])
            /\ log[p][i + 1] = Call("extract", n, "text")
            /\ PagesFor(n) = {}

(* C16: a folder that is missing or holds no PDF *)

\* C16: when the folder does not exist or holds no *.pdf file, every run of
\* main() returns normally without a call to the store, the extraction
\* service or the provider, and the store is left as it was.
C16_NothingToDoNoCalls ==
    (~folder.exists \/ folder.files = <<>>) =>
        /\ \A p \in Procs : log[p] = <<>> /\ pc[p] \in {"idle", "done"}
        /\ store \in InitialStores

\* a run on an existing folder without PDFs has returned
C16_Witness ==
    /\ folder.exists
    /\ folder.files = <<>>
    /\ runs >= 1
    /\ pc["A"] = "done"
    /\ log["A"] = <<>>

(* C17: two runs at once *)

\* C17: concurrent runs are not synchronized.  As long as every filename query
\* is answered correctly, two pages with the same File-Name come from two
\* different runs, and the run that created the later page began before the
\* earlier page was in the store: both runs queried before either create
\* landed.  (That such an interleaving exists is shown by C17_Witness.)
C17_DuplicatesOnlyFromOverlap ==
    ~misanswered =>
        \A i, j \in 1..Len(store) :
            (i < j /\ store[i].FileName = store[j].FileName) =>
                /\ store[i].DateAdded # store[j].DateAdded
                /\ \A q \in Procs :
                      runNo[q] = store[j].DateAdded =>
                          store[j].FileName \notin startNames[q]

\* both runs found no record for the new file, both created a page, and the
\* store ends with two pages for it
C17_Witness ==
    \E n \in FolderNames :
        /\ ~misanswered
        /\ \A p \in Procs :
              /\ pc[p] = "done"
              /\ \E i \in CallsAt(p, "query") : log[p][i] = Call("query", n, "none")
              /\ \E i \in CallsAt(p, "create") :
                    log[p][i] = Call("create", n, "created")
        /\ Cardinality(PagesFor(n)) = 2

(* C18: a JSON object that lacks keys *)

\* the members of the object in the provider's completion
MembersOf(prov) ==
    LET js == JsonSlice(RawOutput(prov))
    IN  {js[i] : i \in {i \in 1..Len(js) : js[i] \in PairTokens}}

\* summarize_text was applied to a non-empty text and the provider returned a
\* parseable object without the key one_sentence_summary
ParsedWithoutOneSentence ==
    /\ fnOp = "summarize"
    /\ Len(fnText) > 0
    /\ ~SummarizeRaises(fnProv)
    /\ \A tok \in MembersOf(fnProv) : PairKey(tok) # "one_sentence_summary"

\* C18 as stated: a parseable object that lacks one_sentence_summary is
\* treated like a failed call: one_sentence_summary is the extractive summary
\* of the input text.
C18_MissingKeysUseFallback ==
    ParsedWithoutOneSentence =>
        fnSummary["one_sentence_summary"] = Str(ExpectedFallback(fnText))

\* C18 amended: when the provider returns a parseable object that lacks some
\* of the eight keys, summarize_text returns the parsed object with each
\* missing key at its default (the empty list for tags, the empty string
\* otherwise) and each present key as the provider gave it; a missing
\* one_sentence_summary is left empty.
C18_MissingKeysGetDefaults ==
    (fnOp = "summarize" /\ Len(fnText) > 0 /\ ~SummarizeRaises(fnProv)) =>
        LET members == MembersOf(fnProv)
            keys == {PairKey(tok) : tok \in members}
        IN  \A k \in KeySet :
                IF k \in keys
                THEN \E tok \in members :
                        PairKey(tok) = k /\ fnSummary[k] = PairValue(tok)
                ELSE fnSummary[k] = IF k = "tags" THEN List(<<>>) ELSE Str(<<>>)

\* an object with a title only, for a text that has sentences: the summary
\* keeps the title and its one_sentence_summary is empty
C18_Witness ==
    /\ ParsedWithoutOneSentence
    /\ MembersOf(fnProv) = {"title=text"}
    /\ fnText = <<"a", ".">>
    /\ fnSummary["title"] = Str(<<"T">>)
    /\ fnSummary["one_sentence_summary"] = Str(<<>>)
    /\ fnSummary["tags"] = List(<<>>)

(* C19: the order of the calls of a run *)

\* the place of a stage in an iteration
StageRank(op) ==
    CASE op = "query" -> 1
      [] op = "extract" -> 2
      [] op = "compress" -> 3
      [] op = "summarize" -> 4
      [] op = "create" -> 5

\* the place of a file in the folder's listing
FilePlace(n) == CHOOSE i \in 1..Len(folder.files) : folder.files[i] = n

\* C19: within a run the calls for one file are made in the order query,
\* extract, compress, summarize, create, each stage at most once and none
\* skipped, and all the calls for a file precede every call for a later file:
\* every call but a query follows the previous stage of the same file, and a
\* query opens the run or follows a call for an earlier file of the folder.
C19_StagesInOrder ==
    \A p \in Procs : \A i \in 1..Len(log[p]) :
        IF log[p][i].op = "query"
        THEN i = 1 \/ FilePlace(log[p][i - 1].name) < FilePlace(log[p][i].name)
        ELSE /\ i > 1
             /\ log[p][i - 1].name = log[p][i].name
             /\ StageRank(log[p][i - 1].op) = StageRank(log[p][i].op) - 1

\* a finished run that made all five calls for two files, one file after the
\* other
C19_Witness ==
    \E p \in Procs :
        /\ pc[p] = "done"
        /\ Len(log[p]) = 10
        /\ \A i \in 1..5 : log[p][i].name = folder.files[1]
        /\ \A i \in 6..10 : log[p][i].name = folder.files[2]

(* C20: provider failures and persistence *)

\* C20: for a new file whose extracted text is not blank, when the provider
\* yields nothing usable in the compression and in the summarization (it
\* raises, returns an empty completion, or returns prose without JSON), the
\* iteration still goes on to the create call: once summarize_text has
\* returned, the file is at its create call or the call has been made.
C20_ProviderFailuresDoNotBlockCreate ==
    \A p \in Procs :
        (llmFailed[p] /\ log[p] # <<>>) =>
            LET last == log[p][Len(log[p])]
            IN  \/ last.op = "compress"
                \/ last.op = "summarize" /\ pc[p] = "create"
                \/ /\ last.op = "create"
                   /\ Cardinality({i \in CallsAt(p, "create") :
                                      log[p][i].name = last.name}) = 1

(* C21: the writes of a run *)

\* C21: every step of a run leaves the store as it is or appends one page to
\* it, a page whose File-Name is the name of the file that the process is at
\* and whose Status is "To Read": no page is changed or removed, and the
\* pages only grow in number.
C21_OnlyCreates ==
    [][\/ store' = store
       \/ \E p \in Procs :
            /\ pc[p] = "create"
            /\ Len(store') = Len(store) + 1
            /\ SubSeq(store', 1, Len(store)) = store
            /\ store'[Len(store')].FileName = filename(p)
            /\ store'[Len(store')].Status = "To Read"]_vars

\* a finished run has added a page for another file behind the page that was
\* there before the run, which is as it was
C21_Witness ==
    /\ Len(store) >= 2
    /\ store[1] = OldPage("paper2.pdf")
    /\ store[2].FileName = "paper1.pdf"
    /\ store[2].Status = "To Read"
    /\ store[2].DateAdded >= 1
    /\ \E p \in Procs : pc[p] = "done"

(* C22: convergence by running again *)

\* so far in the run of p every external call has succeeded and given
\* something to go on with: no query failed for a recorded file, every
\* extraction gave a text, every summarization a non-blank summary, and every
\* create call was accepted
CleanRun(p) ==
    /\ missed[p] = {}
    /\ \A i \in 1..Len(log[p]) :
          CASE log[p][i].op = "extract" -> log[p][i].res = "text"
            [] log[p][i].op = "summarize" -> log[p][i].res = "text"
            [] log[p][i].op = "create" -> log[p][i].res = "created"
            [] OTHER -> TRUE

\* C22: over runs one after the other on a fixed folder, a run in which every
\* external call succeeds and yields a non-empty summary ends with a page in
\* the store for every file of the folder, and a run that begins with a page
\* for every file and whose calls succeed creates nothing.
C22_CleanRunsConverge ==
    \A p \in Procs :
        (log[p] # <<>> /\ CleanRun(p)) =>
            /\ pc[p] = "done" => FolderNames \subseteq StoreNames(store)
            /\ FolderNames \subseteq startNames[p] => CreateNames(p) = {}

\* the first run created a page for each of the two files, and the second
\* run, all of whose calls succeeded, found both and created nothing
C22_Witness ==
    \E p \in Procs :
        /\ runNo[p] = 2
        /\ pc[p] = "done"
        /\ CleanRun(p)
        /\ Len(folder.files) = 2
        /\ Len(store) = 2
        /\ \A i \in 1..2 :
              /\ store[i].FileName = folder.files[i]
              /\ store[i].DateAdded = 1
              /\ log[p][i] = Call("query", folder.files[i], "found")
        /\ Len(log[p]) = 2

====
